---------------------------- MODULE Spec2Model ----------------------------
(* Model of the Sangeet model-export scripts:                             *)
(*   colab_openunmix.py, colab_script.py (runner.sh + run_conversion.py), *)
(*   scripts/convert_openunmix.py, scripts/convert_openunmix_spectral.py, *)
(*   scripts/inspect_umx.py.                                              *)
(* One run of one script is one behaviour.  Every call into pip, torch,   *)
(* openunmix, demucs, coremltools or shutil either returns or raises;     *)
(* the choice is nondeterministic.                                        *)
EXTENDS Integers, Sequences, FiniteSets, TLC

VARIABLES
    script,         \* the script this run executes
    numpy_version,  \* numpy.__version__ in the environment (sequence of characters)
    pc,             \* position of the invoking python process
    exit_code,      \* its exit status (Running until it ends)
    child_pc,       \* position of the runner.sh subprocess (colab_script.py only)
    returncode,     \* exit status of runner.sh (Running until it ends)
    history,        \* steps executed so far, in order, with their outcome
    disk,           \* files written by this run, in order of creation
    stdout,         \* lines printed so far (parent and child share the terminal)
    traced_model,   \* <<>> or <<the result of torch.jit.trace>>
    mlmodel         \* <<>> or <<the result of ct.convert>>

vars == <<script, numpy_version, pc, exit_code, child_pc, returncode,
          history, disk, stdout, traced_model, mlmodel>>

-----------------------------------------------------------------------------
(* Bounds *)

MaxMajor == 11      \* numpy major versions 1..MaxMajor
MaxMinor == 1       \* numpy minor versions 0..MaxMinor
MaxStatus == 2      \* a failing shell command exits with 1..MaxStatus

Running == -1

Scripts == {"colab_openunmix", "colab_script", "convert_openunmix",
            "convert_openunmix_spectral", "inspect_umx"}

-----------------------------------------------------------------------------
(* Version strings *)

Digit(d) == CASE d = 0 -> "0" [] d = 1 -> "1" [] d = 2 -> "2" [] d = 3 -> "3"
              [] d = 4 -> "4" [] d = 5 -> "5" [] d = 6 -> "6" [] d = 7 -> "7"
              [] d = 8 -> "8" [] d = 9 -> "9"

DigitValue(c) == CHOOSE d \in 0..9 : Digit(d) = c

RECURSIVE Decimal(_)
Decimal(n) == IF n < 10 THEN <<Digit(n)>>
              ELSE Append(Decimal(n \div 10), Digit(n % 10))

\* the string numpy reports for release major.minor
VersionString(major, minor) == Decimal(major) \o <<".">> \o Decimal(minor)

Versions == { VersionString(a, b) : a \in 1..MaxMajor, b \in 0..MaxMinor }

\* str.startswith
startswith(s, prefix) ==
    /\ Len(s) >= Len(prefix)
    /\ SubSeq(s, 1, Len(prefix)) = prefix

-----------------------------------------------------------------------------
(* Records *)

Line(text, arg) == [text |-> text, arg |-> arg]

Traceback == Line("Traceback (most recent call last)", <<>>)

Entry(step, stage, outcome) == [step |-> step, stage |-> stage, outcome |-> outcome]

FixedDim(n) == [lower_bound |-> n, upper_bound |-> n, default |-> n]

RangeDim(lower_bound, upper_bound, default) ==
    [lower_bound |-> lower_bound, upper_bound |-> upper_bound, default |-> default]

Dims(shape) == [i \in 1..Len(shape) |-> FixedDim(shape[i])]

TensorType(name, shape) == [name |-> name, shape |-> shape]

\* ct.convert(traced, inputs=[...], convert_to="mlprogram",
\*            compute_precision=FLOAT16, minimum_deployment_target=macOS13)
Convert(inputs, author, short_description) ==
    [inputs |-> inputs, convert_to |-> "mlprogram",
     compute_precision |-> "FLOAT16", minimum_deployment_target |-> "macOS13",
     author |-> author, short_description |-> short_description]

\* torch.jit.trace(model, example_input, check_trace=...)
Trace(model, example_input, check_trace) ==
    [model |-> model, example_input |-> example_input, check_trace |-> check_trace]

\* what torch.jit.trace can do: return, raise from the forward pass, or,
\* when it re-runs the trace to validate it, report a divergence
TraceOutcomes(check_trace) ==
    {"ok", "error"} \cup (IF check_trace THEN {"check_failed"} ELSE {})

Outcome(ok) == IF ok THEN "ok" ELSE "error"

-----------------------------------------------------------------------------
(* The invoking python process *)

\* an exception nobody catches: traceback, exit status 1
Uncaught(printed) ==
    /\ pc' = "exited"
    /\ exit_code' = 1
    /\ stdout' = stdout \o printed \o <<Traceback>>

\* the script runs off its end: exit status 0
EndOfScript(printed) ==
    /\ pc' = "exited"
    /\ exit_code' = 0
    /\ stdout' = stdout \o printed

Goto(to, printed) ==
    /\ pc' = to
    /\ exit_code' = exit_code
    /\ stdout' = stdout \o printed

\* a call that creates files and then fails: the files it had already
\* created stay behind (a truncated .zip, an empty runner.sh, a half-built
\* venv); a call that fails before creating them leaves nothing
PartWay(written) ==
    \E left \in BOOLEAN : disk' = IF left THEN disk \o written ELSE disk

Init ==
    /\ script \in Scripts
    /\ numpy_version \in Versions
    /\ pc = "start"
    /\ exit_code = Running
    /\ child_pc = "none"
    /\ returncode = Running
    /\ history = <<>>
    /\ disk = <<>>
    /\ stdout = <<>>
    /\ traced_model = <<>>
    /\ mlmodel = <<>>

-----------------------------------------------------------------------------
(* colab_openunmix.py *)

ColabOpenunmix_samples == 44100 * 10

\* subprocess.check_call([sys.executable, "-m", "pip", "install", ...])
ColabOpenunmix_PipInstall ==
    /\ script = "colab_openunmix"
    /\ pc = "start"
    /\ \E rc \in 0..MaxStatus :
        /\ history' = Append(history, Entry("pip install", "provision", Outcome(rc = 0)))
        /\ IF rc = 0
           THEN Goto("imports", <<Line("INSTALLING OPENUNMIX...", <<>>)>>)
           ELSE Uncaught(<<Line("INSTALLING OPENUNMIX...", <<>>)>>)
    /\ UNCHANGED <<script, numpy_version, child_pc, returncode, disk,
                   traced_model, mlmodel>>

\* import torch, openunmix, coremltools, shutil
ColabOpenunmix_Imports ==
    /\ script = "colab_openunmix"
    /\ pc = "imports"
    /\ \E ok \in BOOLEAN :
        /\ history' = Append(history, Entry("import", "import", Outcome(ok)))
        /\ IF ok THEN Goto("load", <<>>) ELSE Uncaught(<<>>)
    /\ UNCHANGED <<script, numpy_version, child_pc, returncode, disk,
                   traced_model, mlmodel>>

\* openunmix.utils.load_separator(...); separator.eval()
ColabOpenunmix_Load ==
    /\ script = "colab_openunmix"
    /\ pc = "load"
    /\ \E ok \in BOOLEAN :
        /\ history' = Append(history, Entry("load_separator", "load", Outcome(ok)))
        /\ IF ok THEN Goto("trace", <<Line("Loading OpenUnmix (umxhq)...", <<>>)>>)
                 ELSE Uncaught(<<Line("Loading OpenUnmix (umxhq)...", <<>>)>>)
    /\ UNCHANGED <<script, numpy_version, child_pc, returncode, disk,
                   traced_model, mlmodel>>

\* torch.jit.trace(separator, example_input): check_trace keeps its default
ColabOpenunmix_Trace ==
    /\ script = "colab_openunmix"
    /\ pc = "trace"
    /\ \E outcome \in TraceOutcomes(TRUE) :
        /\ history' = Append(history, Entry("torch.jit.trace", "trace", outcome))
        /\ IF outcome = "ok"
           THEN /\ traced_model' = <<Trace("separator", <<1, 2, ColabOpenunmix_samples>>, TRUE)>>
                /\ Goto("convert", <<Line("Tracing model...", <<>>)>>)
           ELSE /\ traced_model' = traced_model
                /\ Uncaught(<<Line("Tracing model...", <<>>)>>)
    /\ UNCHANGED <<script, numpy_version, child_pc, returncode, disk, mlmodel>>

\* ct.convert(...); mlmodel.author = ...; mlmodel.short_description = ...
ColabOpenunmix_Convert ==
    /\ script = "colab_openunmix"
    /\ pc = "convert"
    /\ \E ok \in BOOLEAN :
        /\ history' = Append(history, Entry("ct.convert", "convert", Outcome(ok)))
        /\ IF ok
           THEN /\ mlmodel' = <<Convert(
                        <<TensorType("audio", Dims(<<1, 2, ColabOpenunmix_samples>>))>>,
                        "Sangeet AI", "OpenUnmix (UMXHQ)")>>
                /\ Goto("save", <<Line("Converting to Core ML...", <<>>)>>)
           ELSE /\ mlmodel' = mlmodel
                /\ Uncaught(<<Line("Converting to Core ML...", <<>>)>>)
    /\ UNCHANGED <<script, numpy_version, child_pc, returncode, disk, traced_model>>

\* mlmodel.save("OpenUnmix.mlpackage")
ColabOpenunmix_Save ==
    /\ script = "colab_openunmix"
    /\ pc = "save"
    /\ \E ok \in BOOLEAN :
        /\ history' = Append(history, Entry("mlmodel.save", "save", Outcome(ok)))
        /\ IF ok
           THEN /\ disk' = Append(disk, "OpenUnmix.mlpackage")
                /\ Goto("zip", <<Line("Saving to OpenUnmix.mlpackage...", <<>>)>>)
           ELSE /\ disk' = disk
                /\ Uncaught(<<Line("Saving to OpenUnmix.mlpackage...", <<>>)>>)
    /\ UNCHANGED <<script, numpy_version, child_pc, returncode, traced_model, mlmodel>>

\* shutil.make_archive("OpenUnmix", 'zip', output_path), then the script ends
ColabOpenunmix_Zip ==
    /\ script = "colab_openunmix"
    /\ pc = "zip"
    /\ \E ok \in BOOLEAN :
        /\ history' = Append(history, Entry("shutil.make_archive", "archive", Outcome(ok)))
        /\ IF ok
           THEN /\ disk' = Append(disk, "OpenUnmix.zip")
                /\ EndOfScript(<<Line("Zipping...", <<>>), Line("SUCCESS!", <<>>),
                                 Line("Download 'OpenUnmix.zip' from files.", <<>>)>>)
           ELSE /\ PartWay(<<"OpenUnmix.zip">>)
                /\ Uncaught(<<Line("Zipping...", <<>>)>>)
    /\ UNCHANGED <<script, numpy_version, child_pc, returncode, traced_model, mlmodel>>

-----------------------------------------------------------------------------
(* scripts/convert_openunmix.py *)

ConvertOpenunmix_samples == 44100 * 3

\* import torch, openunmix, coremltools, shutil, os
ConvertOpenunmix_Imports ==
    /\ script = "convert_openunmix"
    /\ pc = "start"
    /\ \E ok \in BOOLEAN :
        /\ history' = Append(history, Entry("import", "import", Outcome(ok)))
        /\ IF ok THEN Goto("load", <<>>) ELSE Uncaught(<<>>)
    /\ UNCHANGED <<script, numpy_version, child_pc, returncode, disk,
                   traced_model, mlmodel>>

\* openunmix.utils.load_separator(...); separator.eval()
ConvertOpenunmix_Load ==
    /\ script = "convert_openunmix"
    /\ pc = "load"
    /\ \E ok \in BOOLEAN :
        /\ history' = Append(history, Entry("load_separator", "load", Outcome(ok)))
        /\ IF ok THEN Goto("trace", <<Line("Loading OpenUnmix (umxhq)...", <<>>)>>)
                 ELSE Uncaught(<<Line("Loading OpenUnmix (umxhq)...", <<>>)>>)
    /\ UNCHANGED <<script, numpy_version, child_pc, returncode, disk,
                   traced_model, mlmodel>>

\* torch.jit.trace(separator, example_input, check_trace=False)
ConvertOpenunmix_Trace ==
    /\ script = "convert_openunmix"
    /\ pc = "trace"
    /\ \E outcome \in TraceOutcomes(FALSE) :
        /\ history' = Append(history, Entry("torch.jit.trace", "trace", outcome))
        /\ IF outcome = "ok"
           THEN /\ traced_model' = <<Trace("separator", <<1, 2, ConvertOpenunmix_samples>>, FALSE)>>
                /\ Goto("convert", <<Line("Tracing model...", <<>>)>>)
           ELSE /\ traced_model' = traced_model
                /\ Uncaught(<<Line("Tracing model...", <<>>)>>)
    /\ UNCHANGED <<script, numpy_version, child_pc, returncode, disk, mlmodel>>

\* ConvertOpenunmix_Convert declaring the ten-second shape of the Colab script
ConvertOpenunmix_Convert_TenSeconds ==
    /\ script = "convert_openunmix"
    /\ pc = "convert"
    /\ \E ok \in BOOLEAN :
        /\ history' = Append(history, Entry("ct.convert", "convert", Outcome(ok)))
        /\ IF ok
           THEN /\ mlmodel' = <<Convert(
                        <<TensorType("audio", Dims(<<1, 2, ColabOpenunmix_samples>>))>>,
                        "Sangeet AI", "OpenUnmix (UMXHQ)")>>
                /\ Goto("save", <<Line("Converting to Core ML...", <<>>)>>)
           ELSE /\ mlmodel' = mlmodel
                /\ Uncaught(<<Line("Converting to Core ML...", <<>>)>>)
    /\ UNCHANGED <<script, numpy_version, child_pc, returncode, disk, traced_model>>

\* ct.convert(...); mlmodel.author = ...; mlmodel.short_description = ...
ConvertOpenunmix_Convert ==
    /\ script = "convert_openunmix"
    /\ pc = "convert"
    /\ \E ok \in BOOLEAN :
        /\ history' = Append(history, Entry("ct.convert", "convert", Outcome(ok)))
        /\ IF ok
           THEN /\ mlmodel' = <<Convert(
                        <<TensorType("audio", Dims(<<1, 2, ConvertOpenunmix_samples>>))>>,
                        "Sangeet AI", "OpenUnmix (UMXHQ)")>>
                /\ Goto("save", <<Line("Converting to Core ML...", <<>>)>>)
           ELSE /\ mlmodel' = mlmodel
                /\ Uncaught(<<Line("Converting to Core ML...", <<>>)>>)
    /\ UNCHANGED <<script, numpy_version, child_pc, returncode, disk, traced_model>>

\* mlmodel.save("OpenUnmix.mlpackage"), then the script ends; no archive is made
ConvertOpenunmix_Save ==
    /\ script = "convert_openunmix"
    /\ pc = "save"
    /\ \E ok \in BOOLEAN :
        /\ history' = Append(history, Entry("mlmodel.save", "save", Outcome(ok)))
        /\ IF ok
           THEN /\ disk' = Append(disk, "OpenUnmix.mlpackage")
                /\ EndOfScript(<<Line("Saving to OpenUnmix.mlpackage...", <<>>),
                                 Line("SUCCESS!", <<>>)>>)
           ELSE /\ disk' = disk
                /\ Uncaught(<<Line("Saving to OpenUnmix.mlpackage...", <<>>)>>)
    /\ UNCHANGED <<script, numpy_version, child_pc, returncode, traced_model, mlmodel>>

-----------------------------------------------------------------------------
(* scripts/convert_openunmix_spectral.py *)

nb_channels == 2
nb_bins == 2049
dummy_frames == 100

\* time_dim as a fixed axis
time_dim_Fixed == FixedDim(100)

\* ct.RangeDim(lower_bound=10, upper_bound=5000, default=100)
time_dim == RangeDim(10, 5000, 100)

\* import torch, openunmix.utils, coremltools, shutil, os
ConvertSpectral_Imports ==
    /\ script = "convert_openunmix_spectral"
    /\ pc = "start"
    /\ \E ok \in BOOLEAN :
        /\ history' = Append(history, Entry("import", "import", Outcome(ok)))
        /\ IF ok THEN Goto("load", <<>>) ELSE Uncaught(<<>>)
    /\ UNCHANGED <<script, numpy_version, child_pc, returncode, disk,
                   traced_model, mlmodel>>

\* load_separator(...); separator.target_models['vocals']; vocals_model.eval()
ConvertSpectral_Load ==
    /\ script = "convert_openunmix_spectral"
    /\ pc = "load"
    /\ \E ok \in BOOLEAN :
        /\ history' = Append(history, Entry("load_separator", "load", Outcome(ok)))
        /\ IF ok THEN Goto("trace", <<Line("Loading OpenUnmix Vocals Model...", <<>>)>>)
                 ELSE Uncaught(<<Line("Loading OpenUnmix Vocals Model...", <<>>)>>)
    /\ UNCHANGED <<script, numpy_version, child_pc, returncode, disk,
                   traced_model, mlmodel>>

\* torch.jit.trace(vocals_model, dummy_input): check_trace keeps its default
ConvertSpectral_Trace ==
    /\ script = "convert_openunmix_spectral"
    /\ pc = "trace"
    /\ LET dummy_input == <<1, nb_channels, nb_bins, dummy_frames>>
       IN \E outcome \in TraceOutcomes(TRUE) :
            /\ history' = Append(history, Entry("torch.jit.trace", "trace", outcome))
            /\ IF outcome = "ok"
               THEN /\ traced_model' = <<Trace("vocals", dummy_input, TRUE)>>
                    /\ Goto("convert", <<Line("Tracing with input:", dummy_input)>>)
               ELSE /\ traced_model' = traced_model
                    /\ Uncaught(<<Line("Tracing with input:", dummy_input)>>)
    /\ UNCHANGED <<script, numpy_version, child_pc, returncode, disk, mlmodel>>

\* ct.TensorType(name="magnitude_spectrogram", shape=(1, 2, 2049, time_dim));
\* ct.convert(...); mlmodel.author = ...; mlmodel.short_description = ...
ConvertSpectral_Convert ==
    /\ script = "convert_openunmix_spectral"
    /\ pc = "convert"
    /\ \E ok \in BOOLEAN :
        /\ history' = Append(history, Entry("ct.convert", "convert", Outcome(ok)))
        /\ IF ok
           THEN /\ mlmodel' = <<Convert(
                        <<TensorType("magnitude_spectrogram",
                                     <<FixedDim(1), FixedDim(2), FixedDim(2049), time_dim>>)>>,
                        "Sangeet AI", "OpenUnmix Vocals (Spectral)")>>
                /\ Goto("save", <<Line("Converting to Core ML...", <<>>)>>)
           ELSE /\ mlmodel' = mlmodel
                /\ Uncaught(<<Line("Converting to Core ML...", <<>>)>>)
    /\ UNCHANGED <<script, numpy_version, child_pc, returncode, disk, traced_model>>

\* mlmodel.save("OpenUnmixSpectrogram.mlpackage")
ConvertSpectral_Save ==
    /\ script = "convert_openunmix_spectral"
    /\ pc = "save"
    /\ \E ok \in BOOLEAN :
        /\ history' = Append(history, Entry("mlmodel.save", "save", Outcome(ok)))
        /\ IF ok
           THEN /\ disk' = Append(disk, "OpenUnmixSpectrogram.mlpackage")
                /\ Goto("zip", <<Line("Saving to OpenUnmixSpectrogram.mlpackage...", <<>>)>>)
           ELSE /\ disk' = disk
                /\ Uncaught(<<Line("Saving to OpenUnmixSpectrogram.mlpackage...", <<>>)>>)
    /\ UNCHANGED <<script, numpy_version, child_pc, returncode, traced_model, mlmodel>>

\* shutil.make_archive("OpenUnmixSpectrogram", 'zip', output_path), then the script ends
ConvertSpectral_Zip ==
    /\ script = "convert_openunmix_spectral"
    /\ pc = "zip"
    /\ \E ok \in BOOLEAN :
        /\ history' = Append(history, Entry("shutil.make_archive", "archive", Outcome(ok)))
        /\ IF ok
           THEN /\ disk' = Append(disk, "OpenUnmixSpectrogram.zip")
                /\ EndOfScript(<<Line("Zipping...", <<>>), Line("SUCCESS!", <<>>)>>)
           ELSE /\ PartWay(<<"OpenUnmixSpectrogram.zip">>)
                /\ Uncaught(<<Line("Zipping...", <<>>)>>)
    /\ UNCHANGED <<script, numpy_version, child_pc, returncode, traced_model, mlmodel>>

-----------------------------------------------------------------------------
(* scripts/inspect_umx.py *)

\* import os, torch, openunmix.utils
InspectUmx_Imports ==
    /\ script = "inspect_umx"
    /\ pc = "start"
    /\ \E ok \in BOOLEAN :
        /\ history' = Append(history, Entry("import", "import", Outcome(ok)))
        /\ IF ok THEN Goto("load", <<>>) ELSE Uncaught(<<>>)
    /\ UNCHANGED <<script, numpy_version, child_pc, returncode, disk,
                   traced_model, mlmodel>>

\* separator = load_separator(...)
InspectUmx_Load ==
    /\ script = "inspect_umx"
    /\ pc = "load"
    /\ \E ok \in BOOLEAN :
        /\ history' = Append(history, Entry("load_separator", "load", Outcome(ok)))
        /\ IF ok THEN Goto("describe", <<>>) ELSE Uncaught(<<>>)
    /\ UNCHANGED <<script, numpy_version, child_pc, returncode, disk,
                   traced_model, mlmodel>>

\* the prints about the separator; vocals = separator.target_models['vocals'];
\* the first dummy_spec, which is never used
InspectUmx_Describe ==
    /\ script = "inspect_umx"
    /\ pc = "describe"
    /\ \E has_models \in BOOLEAN, ok \in BOOLEAN :
        LET printed == <<Line("Separator type:", <<>>), Line("Attributes:", <<>>)>>
                       \o (IF has_models THEN <<Line("Models keys:", <<>>)>> ELSE <<>>)
        IN /\ history' = Append(history, Entry("target_models['vocals']", "lookup", Outcome(ok)))
           /\ IF ok THEN Goto("candidate_1", printed \o <<Line("Vocals Model:", <<>>)>>)
                    ELSE Uncaught(printed)
    /\ UNCHANGED <<script, numpy_version, child_pc, returncode, disk,
                   traced_model, mlmodel>>

\* TryShape without the try/except: a raising call ends the process
TryShape_Uncaught(step, shape, to, printed) ==
    \E ok \in BOOLEAN :
        /\ history' = Append(history, Entry(step, "forward", Outcome(ok)))
        /\ IF ok
           THEN /\ pc' = to
                /\ exit_code' = IF to = "exited" THEN 0 ELSE exit_code
                /\ stdout' = stdout \o printed \o <<Line("Success with", shape)>>
           ELSE Uncaught(printed)

\* try: out = vocals(dummy_spec); print(Success ...)
\* except Exception as e: print(Failed ...)
TryShape(step, shape, to, printed) ==
    \E ok \in BOOLEAN :
        /\ history' = Append(history, Entry(step, "forward", Outcome(ok)))
        /\ pc' = to
        /\ exit_code' = IF to = "exited" THEN 0 ELSE exit_code
        /\ stdout' = stdout \o printed
                        \o <<IF ok THEN Line("Success with", shape)
                                   ELSE Line("Failed with", shape)>>

\* dummy_spec = torch.randn(1, 2, 2049, 100), tried on vocals
InspectUmx_Candidate1 ==
    /\ script = "inspect_umx"
    /\ pc = "candidate_1"
    /\ TryShape("vocals(dummy_spec)", <<1, 2, 2049, 100>>, "candidate_2",
                <<Line("Attempting to infer shape...", <<>>)>>)
    /\ UNCHANGED <<script, numpy_version, child_pc, returncode, disk,
                   traced_model, mlmodel>>

\* dummy_spec_2 = torch.randn(1, 100, 2049*2), tried on vocals; the script ends
InspectUmx_Candidate2 ==
    /\ script = "inspect_umx"
    /\ pc = "candidate_2"
    /\ TryShape("vocals(dummy_spec_2)", <<1, 100, 2049 * 2>>, "exited", <<>>)
    /\ UNCHANGED <<script, numpy_version, child_pc, returncode, disk,
                   traced_model, mlmodel>>

-----------------------------------------------------------------------------
(* colab_script.py: the invoking process *)

\* with open("runner.sh", "w") as f: f.write(script)
ColabScript_WriteRunner ==
    /\ script = "colab_script"
    /\ pc = "start"
    /\ \E ok \in BOOLEAN :
        /\ history' = Append(history, Entry("write runner.sh", "write", Outcome(ok)))
        /\ IF ok THEN disk' = Append(disk, "runner.sh") /\ Goto("run", <<>>)
                 ELSE PartWay(<<"runner.sh">>) /\ Uncaught(<<>>)
    /\ UNCHANGED <<script, numpy_version, child_pc, returncode, traced_model, mlmodel>>

\* subprocess.run(["bash", "runner.sh"], check=True, ...): start the subprocess
ColabScript_Run ==
    /\ script = "colab_script"
    /\ pc = "run"
    /\ \E ok \in BOOLEAN :
        LET printed == <<Line("Starting isolated shell execution...", <<>>),
                         Line("----------------", <<>>)>>
        IN /\ history' = Append(history, Entry("bash runner.sh", "launch", Outcome(ok)))
           /\ IF ok THEN child_pc' = "python3 --version" /\ Goto("wait", printed)
                    ELSE child_pc' = child_pc /\ Uncaught(printed)
    /\ UNCHANGED <<script, numpy_version, returncode, disk, traced_model, mlmodel>>

\* ColabScript_Wait with a handler that starts runner.sh again after a failure
ColabScript_Wait_Retry ==
    /\ script = "colab_script"
    /\ pc = "wait"
    /\ child_pc = "exited"
    /\ IF returncode = 0
       THEN /\ EndOfScript(<<>>)
            /\ UNCHANGED <<child_pc, returncode, history>>
       ELSE /\ Goto("wait", <<Line("Script failed with code", <<returncode>>)>>)
            /\ child_pc' = "python3 --version"
            /\ returncode' = Running
            /\ history' = Append(history, Entry("bash runner.sh", "launch", "ok"))
    /\ UNCHANGED <<script, numpy_version, disk, traced_model, mlmodel>>

\* subprocess.run returns once runner.sh has exited; check=True raises
\* CalledProcessError on a non-zero status, which the except clause prints;
\* then the script ends
ColabScript_Wait ==
    /\ script = "colab_script"
    /\ pc = "wait"
    /\ child_pc = "exited"
    /\ IF returncode = 0
       THEN EndOfScript(<<>>)
       ELSE EndOfScript(<<Line("Script failed with code", <<returncode>>)>>)
    /\ UNCHANGED <<script, numpy_version, child_pc, returncode, history, disk,
                   traced_model, mlmodel>>

-----------------------------------------------------------------------------
(* colab_script.py: runner.sh *)

\* set_e without "set -e": the shell goes on to the next command
set_e_Off(rc, to, printed) ==
    /\ child_pc' = to
    /\ returncode' = returncode
    /\ stdout' = stdout \o printed

\* set -e: the shell exits with the status of the first failing command
set_e(rc, to, printed) ==
    /\ child_pc' = "exited"
    /\ returncode' = rc
    /\ stdout' = stdout \o printed

\* one simple command of runner.sh, with the echo lines that precede it;
\* a command that fails may already have created its files
ShCommand(from, to, stage, printed, written) ==
    /\ script = "colab_script"
    /\ child_pc = from
    /\ \E rc \in 0..MaxStatus :
        /\ history' = Append(history, Entry(from, stage, Outcome(rc = 0)))
        /\ IF rc = 0
           THEN /\ child_pc' = to
                /\ returncode' = returncode
                /\ stdout' = stdout \o printed
                /\ disk' = disk \o written
           ELSE /\ set_e(rc, to, printed)
                /\ PartWay(written)
    /\ UNCHANGED <<script, numpy_version, pc, exit_code, traced_model, mlmodel>>

Runner_PythonVersion ==
    ShCommand("python3 --version", "python3 -m venv venv", "provision",
              <<Line("Setting up isolated environment...", <<>>)>>, <<>>)

Runner_Venv ==
    ShCommand("python3 -m venv venv", "source venv/bin/activate", "provision",
              <<>>, <<"venv">>)

Runner_Activate ==
    ShCommand("source venv/bin/activate", "pip install --upgrade pip", "provision",
              <<>>, <<>>)

Runner_PipUpgrade ==
    ShCommand("pip install --upgrade pip", "pip install numpy<2", "provision",
              <<Line("Installing clean dependencies...", <<>>)>>, <<>>)

Runner_PipNumpy ==
    ShCommand("pip install numpy<2", "pip install torch torchaudio", "provision",
              <<>>, <<>>)

Runner_PipTorch ==
    ShCommand("pip install torch torchaudio", "pip install demucs coremltools",
              "provision", <<>>, <<>>)

Runner_PipOthers ==
    ShCommand("pip install demucs coremltools", "cat > run_conversion.py",
              "provision", <<>>, <<>>)

\* cat <<EOF > run_conversion.py
Runner_WriteConversion ==
    ShCommand("cat > run_conversion.py", "python run_conversion.py", "write",
              <<Line("Environment Ready.", <<>>)>>, <<"run_conversion.py">>)

-----------------------------------------------------------------------------
(* colab_script.py: run_conversion.py, the last command of runner.sh *)

samples == 343980

\* an exception nobody catches, or sys.exit(1): python exits with status 1,
\* and so does runner.sh
ChildExit(status, printed) ==
    /\ child_pc' = "exited"
    /\ returncode' = status
    /\ stdout' = stdout \o printed

ChildGoto(to, printed) ==
    /\ child_pc' = to
    /\ returncode' = returncode
    /\ stdout' = stdout \o printed

\* python run_conversion.py: the interpreter starts and runs the imports
RunConversion_Imports ==
    /\ script = "colab_script"
    /\ child_pc = "python run_conversion.py"
    /\ \E ok \in BOOLEAN :
        LET printed == <<Line("Running conversion script...", <<>>)>>
        IN /\ history' = Append(history, Entry("import", "import", Outcome(ok)))
           /\ IF ok THEN ChildGoto("version check", printed)
                    ELSE ChildExit(1, printed \o <<Traceback>>)
    /\ UNCHANGED <<script, numpy_version, pc, exit_code, disk, traced_model, mlmodel>>

\* if numpy.__version__.startswith('2'): print(...); sys.exit(1)
VersionRejected(version) == startswith(version, <<"2">>)

RunConversion_VersionCheck ==
    /\ script = "colab_script"
    /\ child_pc = "version check"
    /\ LET printed == <<Line("Numpy Version inside venv:", <<>>)>>
       IN IF VersionRejected(numpy_version)
          THEN /\ history' = Append(history, Entry("version check", "provision", "rejected"))
               /\ ChildExit(1, printed \o <<Line("Error: Numpy 2.x still present!", <<>>)>>)
          ELSE /\ history' = Append(history, Entry("version check", "provision", "ok"))
               /\ ChildGoto("get_model", printed)
    /\ UNCHANGED <<script, numpy_version, pc, exit_code, disk, traced_model, mlmodel>>

\* bag_model = get_model('htdemucs'); model = bag_model.models[0] or bag_model;
\* model.eval()
RunConversion_GetModel ==
    /\ script = "colab_script"
    /\ child_pc = "get_model"
    /\ \E ok \in BOOLEAN :
        LET printed == <<Line("Downloading Demucs...", <<>>)>>
        IN /\ history' = Append(history, Entry("get_model", "load", Outcome(ok)))
           /\ IF ok THEN ChildGoto("trace", printed)
                    ELSE ChildExit(1, printed \o <<Traceback>>)
    /\ UNCHANGED <<script, numpy_version, pc, exit_code, disk, traced_model, mlmodel>>

\* torch.jit.trace(model, example_input): check_trace keeps its default
RunConversion_Trace ==
    /\ script = "colab_script"
    /\ child_pc = "trace"
    /\ \E outcome \in TraceOutcomes(TRUE) :
        LET printed == <<Line("Tracing...", <<>>)>>
        IN /\ history' = Append(history, Entry("torch.jit.trace", "trace", outcome))
           /\ IF outcome = "ok"
              THEN /\ traced_model' = <<Trace("htdemucs", <<1, 2, samples>>, TRUE)>>
                   /\ ChildGoto("convert", printed)
              ELSE /\ traced_model' = traced_model
                   /\ ChildExit(1, printed \o <<Traceback>>)
    /\ UNCHANGED <<script, numpy_version, pc, exit_code, disk, mlmodel>>

\* ct.convert(traced_model, inputs=[_input], ...); no metadata is set
RunConversion_Convert ==
    /\ script = "colab_script"
    /\ child_pc = "convert"
    /\ \E ok \in BOOLEAN :
        LET printed == <<Line("Converting...", <<>>)>>
        IN /\ history' = Append(history, Entry("ct.convert", "convert", Outcome(ok)))
           /\ IF ok
              THEN /\ mlmodel' = <<Convert(
                           <<TensorType("audio", Dims(<<1, 2, samples>>))>>, "", "")>>
                   /\ ChildGoto("save", printed)
              ELSE /\ mlmodel' = mlmodel
                   /\ ChildExit(1, printed \o <<Traceback>>)
    /\ UNCHANGED <<script, numpy_version, pc, exit_code, disk, traced_model>>

\* RunConversion_Save without the archive step after it
RunConversion_Save_NoArchive ==
    /\ script = "colab_script"
    /\ child_pc = "save"
    /\ \E ok \in BOOLEAN :
        /\ history' = Append(history, Entry("mlmodel.save", "save", Outcome(ok)))
        /\ IF ok
           THEN /\ disk' = Append(disk, "Demucs.mlpackage")
                /\ ChildExit(0, <<Line("Done! Output at Demucs.zip", <<>>)>>)
           ELSE /\ disk' = disk
                /\ ChildExit(1, <<Traceback>>)
    /\ UNCHANGED <<script, numpy_version, pc, exit_code, traced_model, mlmodel>>

\* mlmodel.save('Demucs.mlpackage')
RunConversion_Save ==
    /\ script = "colab_script"
    /\ child_pc = "save"
    /\ \E ok \in BOOLEAN :
        /\ history' = Append(history, Entry("mlmodel.save", "save", Outcome(ok)))
        /\ IF ok
           THEN /\ disk' = Append(disk, "Demucs.mlpackage")
                /\ ChildGoto("archive", <<>>)
           ELSE /\ disk' = disk
                /\ ChildExit(1, <<Traceback>>)
    /\ UNCHANGED <<script, numpy_version, pc, exit_code, traced_model, mlmodel>>

\* shutil.make_archive('Demucs', 'zip', output_path); python ends, runner.sh ends
RunConversion_Archive ==
    /\ script = "colab_script"
    /\ child_pc = "archive"
    /\ \E ok \in BOOLEAN :
        /\ history' = Append(history, Entry("shutil.make_archive", "archive", Outcome(ok)))
        /\ IF ok
           THEN /\ disk' = Append(disk, "Demucs.zip")
                /\ ChildExit(0, <<Line("Done! Output at Demucs.zip", <<>>)>>)
           ELSE /\ PartWay(<<"Demucs.zip">>)
                /\ ChildExit(1, <<Traceback>>)
    /\ UNCHANGED <<script, numpy_version, pc, exit_code, traced_model, mlmodel>>

-----------------------------------------------------------------------------

Next ==
    \/ ColabOpenunmix_PipInstall
    \/ ColabOpenunmix_Imports
    \/ ColabOpenunmix_Load
    \/ ColabOpenunmix_Trace
    \/ ColabOpenunmix_Convert
    \/ ColabOpenunmix_Save
    \/ ColabOpenunmix_Zip
    \/ ConvertOpenunmix_Imports
    \/ ConvertOpenunmix_Load
    \/ ConvertOpenunmix_Trace
    \/ ConvertOpenunmix_Convert
    \/ ConvertOpenunmix_Save
    \/ ConvertSpectral_Imports
    \/ ConvertSpectral_Load
    \/ ConvertSpectral_Trace
    \/ ConvertSpectral_Convert
    \/ ConvertSpectral_Save
    \/ ConvertSpectral_Zip
    \/ InspectUmx_Imports
    \/ InspectUmx_Load
    \/ InspectUmx_Describe
    \/ InspectUmx_Candidate1
    \/ InspectUmx_Candidate2
    \/ ColabScript_WriteRunner
    \/ ColabScript_Run
    \/ ColabScript_Wait
    \/ Runner_PythonVersion
    \/ Runner_Venv
    \/ Runner_Activate
    \/ Runner_PipUpgrade
    \/ Runner_PipNumpy
    \/ Runner_PipTorch
    \/ Runner_PipOthers
    \/ Runner_WriteConversion
    \/ RunConversion_Imports
    \/ RunConversion_VersionCheck
    \/ RunConversion_GetModel
    \/ RunConversion_Trace
    \/ RunConversion_Convert
    \/ RunConversion_Save
    \/ RunConversion_Archive

Spec == Init /\ [][Next]_vars

-----------------------------------------------------------------------------
(* Vocabulary of the properties *)

Exports == {"colab_openunmix", "colab_script", "convert_openunmix",
            "convert_openunmix_spectral"}
Provisioning == {"colab_openunmix", "colab_script"}
Archiving == {"colab_openunmix", "colab_script", "convert_openunmix_spectral"}
WholeSeparator == {"colab_openunmix", "convert_openunmix"}

ModelWork == {"load", "trace", "convert", "save", "archive"}

Packages == {"OpenUnmix.mlpackage", "OpenUnmixSpectrogram.mlpackage", "Demucs.mlpackage"}
Archives == {"OpenUnmix.zip", "OpenUnmixSpectrogram.zip", "Demucs.zip"}

PackageOf(s) == CASE s = "colab_openunmix" -> "OpenUnmix.mlpackage"
                  [] s = "convert_openunmix" -> "OpenUnmix.mlpackage"
                  [] s = "convert_openunmix_spectral" -> "OpenUnmixSpectrogram.mlpackage"
                  [] s = "colab_script" -> "Demucs.mlpackage"

ArchiveOf(s) == CASE s = "colab_openunmix" -> "OpenUnmix.zip"
                  [] s = "convert_openunmix_spectral" -> "OpenUnmixSpectrogram.zip"
                  [] s = "colab_script" -> "Demucs.zip"

IsPackage(f) == f \in Packages
IsArchive(f) == f \in Archives
IsArtifact(f) == f \in Packages \cup Archives
IsModelWork(e) == e.stage \in ModelWork

Ended == pc = "exited"

\* a step of the run raised or exited non-zero and nothing caught it
StepFailed(e) == e.stage # "forward" /\ e.outcome # "ok"
RunFailed == \E i \in 1..Len(history) : StepFailed(history[i])

Executed(step) == \E i \in 1..Len(history) : history[i].step = step
Times(step) == Cardinality({i \in 1..Len(history) : history[i].step = step})

ProvisionFailed ==
    \E i \in 1..Len(history) :
        history[i].stage = "provision" /\ history[i].outcome # "ok"
InstallFailed ==
    \E i \in 1..Len(history) :
        /\ history[i].stage = "provision" /\ history[i].outcome # "ok"
        /\ history[i].step # "version check"

Printed(text) == \E i \in 1..Len(stdout) : stdout[i].text = text

\* the major number of a version string: the digits before the first "."
MajorOf(s) ==
    LET RECURSIVE Go(_, _)
        Go(i, acc) == IF i > Len(s) \/ s[i] = "." THEN acc
                      ELSE Go(i + 1, acc * 10 + DigitValue(s[i]))
    IN Go(1, 0)

StagesOf(h) == [i \in 1..Len(h) |-> h[i].stage]

-----------------------------------------------------------------------------
(* C1 *)

\* C1: in the Demucs export the invoking process waits for runner.sh and
\* propagates its exit status: a non-zero status of runner.sh gives a printed
\* diagnostic and a non-zero exit status of the invoking process, and the
\* invoking process ends with 0 only if runner.sh ended with 0.
C1_ExitStatusPropagated ==
    script = "colab_script" =>
        /\ child_pc \notin {"none", "exited"} => pc = "wait"
        /\ (Ended /\ returncode # Running) =>
              /\ returncode # 0 => (exit_code # 0 /\ Printed("Script failed with code"))
              /\ exit_code = 0 => returncode = 0

-----------------------------------------------------------------------------
(* C2 *)

\* C2: in every provisioning run a numpy version whose major number is 2 or
\* more stops the run before tracing or converting, and a version whose
\* major number is 1 is never rejected.
C2_VersionCheckRejects ==
    script \in Provisioning =>
        /\ MajorOf(numpy_version) >= 2 =>
              \A i \in 1..Len(history) : history[i].stage \notin {"trace", "convert"}
        /\ MajorOf(numpy_version) = 1 =>
              \A i \in 1..Len(history) : history[i].outcome # "rejected"

-----------------------------------------------------------------------------
(* C3 *)

\* C3: no partial success: a run of an export that has ended either succeeded
\* with the complete package (and its archive, where one is made) on disk, or
\* failed with no package artifact of this run on disk.
C3_NoPartialSuccess ==
    (script \in Exports /\ Ended) =>
        IF RunFailed
        THEN SelectSeq(disk, IsArtifact) = <<>>
        ELSE /\ SelectSeq(disk, IsPackage) = <<PackageOf(script)>>
             /\ script \in Archiving => SelectSeq(disk, IsArchive) = <<ArchiveOf(script)>>

-----------------------------------------------------------------------------
(* C4 *)

\* C4: when no step fails, an export ends with exit code 0 after provision
\* (where present), load, trace, convert and save in that order, each exactly
\* once, with exactly one package on disk and, for the archiving exports,
\* exactly one .zip of the same base name created after the package.
C4_SuccessfulRun ==
    (script \in Exports /\ Ended /\ ~RunFailed) =>
        /\ exit_code = 0
        /\ StagesOf(SelectSeq(history, IsModelWork)) =
              IF script \in Archiving
              THEN <<"load", "trace", "convert", "save", "archive">>
              ELSE <<"load", "trace", "convert", "save">>
        /\ (script \in Provisioning) <=>
              (\E i \in 1..Len(history) : history[i].stage = "provision")
        /\ \A i, j \in 1..Len(history) :
              /\ (history[i].stage = "provision" /\ history[j].stage = "load") => i < j
              /\ i # j => history[i].step # history[j].step
        /\ SelectSeq(disk, IsArtifact) =
              IF script \in Archiving
              THEN <<PackageOf(script), ArchiveOf(script)>>
              ELSE <<PackageOf(script)>>

C4_Witness ==
    /\ script = "colab_script" /\ Ended /\ ~RunFailed
    /\ Executed("shutil.make_archive")

-----------------------------------------------------------------------------
(* C5 *)

\* C5 as stated: every whole-waveform OpenUnmix export declares exactly one
\* input, "audio", of shape (1, 2, 441000), equal to the traced example's shape.
C5_Original ==
    (script \in WholeSeparator /\ mlmodel # <<>>) =>
        /\ Len(mlmodel[1].inputs) = 1
        /\ mlmodel[1].inputs[1] = TensorType("audio", Dims(<<1, 2, 441000>>))
        /\ traced_model[1].example_input = <<1, 2, 441000>>

\* C5 amended: every whole-waveform OpenUnmix export declares exactly one
\* input, "audio", whose fixed shape (1, 2, N) equals the shape of the traced
\* example tensor; N is 441000 (10 s at 44100 Hz) in colab_openunmix.py and
\* 132300 (3 s at 44100 Hz) in scripts/convert_openunmix.py.
C5_DeclaredAudioInput ==
    (script \in WholeSeparator /\ mlmodel # <<>>) =>
        /\ Len(mlmodel[1].inputs) = 1
        /\ mlmodel[1].inputs[1].name = "audio"
        /\ mlmodel[1].inputs[1].shape = Dims(traced_model[1].example_input)
        /\ traced_model[1].example_input =
              IF script = "colab_openunmix" THEN <<1, 2, 441000>> ELSE <<1, 2, 132300>>

C5_Witness ==
    script = "convert_openunmix" /\ mlmodel # <<>> /\ Ended

-----------------------------------------------------------------------------
(* C6 *)

\* C6: the spectral export declares exactly one input, "magnitude_spectrogram",
\* of shape (1, 2, 2049, T): only the last axis is flexible, with bounds 10 and
\* 5000 and default 100; the other axes are fixed and match the traced example,
\* whose frame count is the default and lies within the bounds.
C6_DeclaredSpectralInput ==
    (script = "convert_openunmix_spectral" /\ mlmodel # <<>>) =>
        LET inp == mlmodel[1].inputs[1]
            ex == traced_model[1].example_input
        IN /\ Len(mlmodel[1].inputs) = 1
           /\ inp.name = "magnitude_spectrogram"
           /\ Len(inp.shape) = 4 /\ Len(ex) = 4
           /\ SubSeq(inp.shape, 1, 3) = <<FixedDim(1), FixedDim(2), FixedDim(2049)>>
           /\ \A k \in 1..3 : inp.shape[k].default = ex[k]
           /\ inp.shape[4] = [lower_bound |-> 10, upper_bound |-> 5000, default |-> 100]
           /\ inp.shape[4].lower_bound < inp.shape[4].upper_bound
           /\ ex[4] = inp.shape[4].default
           /\ inp.shape[4].lower_bound <= ex[4] /\ ex[4] <= inp.shape[4].upper_bound

C6_Witness ==
    script = "convert_openunmix_spectral" /\ mlmodel # <<>>

-----------------------------------------------------------------------------
(* C7 *)

\* C7: in an export that provisions its environment, once an install step or
\* the version check has failed no model fetch, trace, convert, save or
\* archive step is executed; in the Demucs export run_conversion.py is not
\* started after a failed install step.
C7_ProvisioningFailureIsFatal ==
    (script \in Provisioning /\ ProvisionFailed) =>
        /\ \A i \in 1..Len(history) : history[i].stage \notin ModelWork
        /\ SelectSeq(disk, IsArtifact) = <<>>
        /\ traced_model = <<>> /\ mlmodel = <<>>
        /\ InstallFailed =>
              \A i \in 1..Len(history) :
                  history[i].step \notin {"import", "version check"}

C7_Witness ==
    /\ script = "colab_script" /\ Ended
    /\ Executed("pip install torch torchaudio") /\ InstallFailed

-----------------------------------------------------------------------------
(* C8 *)

Report(ok, shape) == IF ok THEN Line("Success with", shape) ELSE Line("Failed with", shape)

Reports(shape) ==
    SelectSeq(stdout, LAMBDA l : l.text \in {"Success with", "Failed with"} /\ l.arg = shape)

IndexOf(step) ==
    (CHOOSE i \in 1..Len(history) : history[i].step = step) 

\* C8: the probe tries every candidate in order whatever the earlier outcomes:
\* each attempt is reported once, as a success if the call returned and as a
\* caught failure if it raised, the next candidate is tried either way, and a
\* failing candidate does not crash the process.
C8_ProbeTriesEveryCandidate ==
    (script = "inspect_umx" /\ Executed("vocals(dummy_spec)")) =>
        /\ Times("vocals(dummy_spec)") = 1
        /\ Reports(<<1, 2, 2049, 100>>) =
              <<Report(history[IndexOf("vocals(dummy_spec)")].outcome = "ok",
                       <<1, 2, 2049, 100>>)>>
        /\ pc \in {"candidate_2", "exited"}
        /\ ~Printed("Traceback (most recent call last)")
        /\ Ended =>
              /\ Times("vocals(dummy_spec_2)") = 1
              /\ IndexOf("vocals(dummy_spec)") < IndexOf("vocals(dummy_spec_2)")
              /\ Reports(<<1, 100, 4098>>) =
                    <<Report(history[IndexOf("vocals(dummy_spec_2)")].outcome = "ok",
                             <<1, 100, 4098>>)>>
              /\ exit_code = 0

C8_Witness ==
    /\ script = "inspect_umx" /\ Ended
    /\ Executed("vocals(dummy_spec_2)")
    /\ history[IndexOf("vocals(dummy_spec)")].outcome = "error"
    /\ history[IndexOf("vocals(dummy_spec_2)")].outcome = "ok"

-----------------------------------------------------------------------------
(* C9 *)

\* C9: every export that traces the whole OpenUnmix separator traces it with
\* validation disabled, so a trace-validation report is never what fails it.
C9_ValidationDisabled ==
    script \in WholeSeparator =>
        /\ traced_model # <<>> => ~traced_model[1].check_trace
        /\ \A i \in 1..Len(history) : history[i].outcome # "check_failed"

-----------------------------------------------------------------------------
(* C10 *)

\* C10: no step is retried: every stage of a run is executed at most once,
\* and after the first failing stage no later stage is executed.
C10_NoRetry ==
    \A i, j \in 1..Len(history) :
        (history[i].stage # "forward" /\ history[j].stage # "forward") =>
            /\ i # j => history[i].step # history[j].step
            /\ i < j => history[i].outcome = "ok"

C10_Witness ==
    /\ script = "colab_script" /\ Ended
    /\ returncode \notin {Running, 0}
    /\ Executed("get_model")

=============================================================================
